---- MODULE Spec2Model ----
(***************************************************************************)
(* The four workshop notebooks as one state machine.  A behaviour is one   *)
(* notebook (nb) run in one kernel: its code cells are executed top to     *)
(* bottom, one at a time; a cell that raises leaves the kernel and its     *)
(* variables alive, and the following cell can then still be run.          *)
(*                                                                         *)
(* Python strings are sequences of tokens, so that concatenation,          *)
(* removesuffix and "contains" are computed and not assumed.  None is the  *)
(* empty option <<>>, a value v that may be None is <<v>>.                 *)
(***************************************************************************)
EXTENDS Integers, Sequences, FiniteSets, TLC

VARIABLES
    nb,               \* the notebook this kernel runs
    pc,               \* the cell (or the position inside a cell) to run next
    defined,          \* the names bound in the kernel's namespace
    raised,           \* cell -> the exception that left it (NoError: it completed)
    fault,            \* the exception thrown inside the try block of the invocation cell
    stdout,           \* what the cells have printed
    calls,            \* the remote API calls made, in order
    stepLog,          \* start / end of every pipeline step, in order
    files,            \* the local processed-files directory: name -> text
    bucket,           \* the keys list_objects_v2 returns for s3_bucket
    file_objects, obj, base_filename, output_filename, document, images,
    prompt, attributes, messages,
    response,         \* response.get("body"): <<>> or <<the event stream>>
    pos,              \* number of events the stream loop has taken
    output, json_file,
    iter,             \* number of iterations the Textract loop has started
    s3_file_key, list_blueprints_response, blueprint, blueprint_arn,
    pdf_pages,        \* number of pages of the PDF the images cell converts
    invocationArn, status_response, job_metadata_s3_location, custom_output_path

\* ------------------------------------------------------------------ bounds

MaxEvents == 3        \* longest response stream
MaxPages == 2         \* most pages of a PDF

\* ------------------------------------------------------------------ values

None == <<>>
Some(v) == <<v>>

NoError == [type |-> "None", code |-> "", message |-> <<>>]
ClientError(code, message) == [type |-> "ClientError", code |-> code, message |-> message]
AccessDenied == ClientError("AccessDeniedException", <<"You are not authorized">>)
Throttling == ClientError("ThrottlingException", <<"Too many requests">>)
PyError(type) == [type |-> type, code |-> "", message |-> <<>>]

\* The errors the service call can end with: two client errors (botocore's
\* ClientError) and one error that is not a ClientError.
InvokeErrors == {AccessDenied, Throttling, PyError("EndpointConnectionError")}
\* The errors iterating the event stream can end with (EventStreamError is a
\* subclass of ClientError).
StreamErrors == {AccessDenied, Throttling}

\* A stream event, by what the loop reads of it.
EvNoChunk == [chunk |-> FALSE, json |-> FALSE, delta |-> FALSE, deltaSet |-> FALSE,
              hasText |-> FALSE, text |-> <<>>, error |-> NoError]
EvBadBytes == [EvNoChunk EXCEPT !.chunk = TRUE]
EvNoDelta == [EvBadBytes EXCEPT !.json = TRUE]
EvEmptyDelta == [EvNoDelta EXCEPT !.delta = TRUE]
EvDeltaNoText == [EvEmptyDelta EXCEPT !.deltaSet = TRUE]
EvText(t) == [EvDeltaNoText EXCEPT !.hasText = TRUE, !.text = t]
EvRaise(e) == [EvNoChunk EXCEPT !.error = e]

\* The texts a text delta carries: the empty string, plain text and a JSON
\* object.
TextValues == {<<>>, <<"x">>, <<"{", "k", "}">>}

Events ==
    {EvNoChunk, EvBadBytes, EvNoDelta, EvEmptyDelta, EvDeltaNoText}
        \cup {EvText(t) : t \in TextValues}
        \cup {EvRaise(e) : e \in StreamErrors}

SeqsUpTo(S, n) == UNION {[1..k -> S] : k \in 0..n}
Streams == SeqsUpTo(Events, MaxEvents)

Notebooks == {"nb00", "nb01", "nb02", "nb03"}

\* Cells with the export cell of nb01 placed before the invocation cell.
CellsExportFirst(n) ==
    CASE n = "nb00" -> <<"invoke", "end">>
      [] n = "nb01" -> <<"list", "textract", "images", "prompts", "messages",
                         "export", "invoke", "end">>
      [] n = "nb02" -> <<"load", "template", "attributes", "insert", "messages",
                         "invoke", "parse", "end">>
      [] n = "nb03" -> <<"list", "blueprint", "invoke_bda", "status", "metadata",
                         "custom_outputs", "end">>

\* The code cells of each notebook, top to bottom.
Cells(n) ==
    CASE n = "nb00" -> <<"invoke", "end">>
      [] n = "nb01" -> <<"list", "textract", "images", "prompts", "messages",
                         "invoke", "export", "end">>
      [] n = "nb02" -> <<"load", "template", "attributes", "insert", "messages",
                         "invoke", "parse", "end">>
      [] n = "nb03" -> <<"list", "blueprint", "invoke_bda", "status", "metadata",
                         "custom_outputs", "end">>

IndexOf(s, x) == CHOOSE i \in 1..Len(s) : s[i] = x

\* The cell run after cell c.
NextCell(c) == Cells(nb)[IndexOf(Cells(nb), c) + 1]


\* ------------------------------------------------------------------ state

inputs == <<nb, bucket, pdf_pages>>
listing == <<file_objects, obj, s3_file_key>>
blueprints == <<list_blueprints_response, blueprint, blueprint_arn>>
automation == <<invocationArn, status_response, job_metadata_s3_location,
                custom_output_path>>
ocr == <<base_filename, output_filename, document, images, iter>>
prompting == <<prompt, attributes, messages>>
streaming == <<response, pos, output>>
vars == <<nb, pc, defined, raised, fault, stdout, calls, stepLog, files, bucket,
          file_objects, obj, base_filename, output_filename, document, images,
          prompt, attributes, messages, response, pos, output, json_file,
          iter, s3_file_key, list_blueprints_response, blueprint, blueprint_arn,
          pdf_pages, invocationArn, status_response, job_metadata_s3_location,
          custom_output_path>>

Call(api, step, arg) == [api |-> api, step |-> step, arg |-> arg, ret |-> <<>>]
\* The cell has ended, with error e or (NoError) by running to its end.
Ran(cell, e) == (cell :> e) @@ raised
Started(step) == [step |-> step, ev |-> "start", doc |-> 0]
Ended(step) == [step |-> step, ev |-> "end", doc |-> 0]
\* A step that runs in one go.
Whole(step) == <<Started(step), Ended(step)>>

\* ------------------------------------------------------------------ the model-invocation cell

\* The second line of the notice the except clause prints.
Hint ==
    IF nb = "nb01"
    THEN "To troubleshoot this issue please refer to the following resources."
    ELSE "To troubeshoot this issue please refer to the following resources."

Notice(error) ==
    <<"\\x1b[41m">> \o error.message
        \o <<Hint,
             "https://docs.aws.amazon.com/IAM/latest/UserGuide/troubleshoot_access-denied.html",
             "https://docs.aws.amazon.com/bedrock/latest/userguide/security-iam.html",
             "\\x1b[0m", "\n">>

\* ExceptClientError testing the code for a wrong name: no error is recognised
\* as access denied.
ExceptClientErrorWrongCode(error) == [out |-> <<>>, raised |-> error]

\* ExceptClientError without its else branch: every ClientError is swallowed.
ExceptClientErrorNoRaise(error) ==
    IF error.type = "ClientError"
    THEN [out |-> IF error.code = "AccessDeniedException" THEN Notice(error) ELSE <<>>,
          raised |-> NoError]
    ELSE [out |-> <<>>, raised |-> error]

\* except botocore.exceptions.ClientError as error: what is printed, and what
\* leaves the cell.  An error that is no ClientError is not caught.
ExceptClientError(error) ==
    IF error.type = "ClientError"
    THEN IF error.code = "AccessDeniedException"
         THEN [out |-> Notice(error), raised |-> NoError]
         ELSE [out |-> <<>>, raised |-> error]
    ELSE [out |-> <<>>, raised |-> error]

\* body = json.dumps({... "messages": messages ...}) reads the names the earlier
\* cells bind; it is evaluated before the try block.
BodyNames == IF nb = "nb00" THEN {} ELSE {"system_prompt", "messages"}

\* The content of the one user message of the request: nb00 spells it out in
\* messages_API_body, nb01 and nb02 pass the variable messages.
Messages ==
    IF nb = "nb00" THEN <<[type |-> "text", data |-> <<"prompt_data">>]>> ELSE messages

InvokeNameError ==
    /\ pc = "invoke"
    /\ ~(BodyNames \subseteq defined)
    /\ raised' = Ran("invoke", PyError("NameError"))
    /\ pc' = NextCell("invoke")
    /\ UNCHANGED <<inputs, automation, defined, fault, stdout, calls, stepLog, files, listing, ocr,
                   prompting, streaming, json_file, blueprints>>

\* invoke_model_with_response_stream returns; output = "" (a list in nb00) and
\* stream = response.get("body") follow.
InvokeReturns ==
    /\ pc = "invoke"
    /\ BodyNames \subseteq defined
    /\ \E body \in {None} \cup {Some(s) : s \in Streams} :
           response' = body
    /\ calls' = Append(calls, Call("invoke_model_with_response_stream", "invoke",
                                   Messages))
    /\ stepLog' = stepLog \o Whole("invoke") \o <<Started("accumulate")>>
    /\ output' = <<>>
    /\ pos' = 0
    /\ fault' = NoError
    /\ defined' = defined \cup {"body", "modelId", "response", "output", "stream"}
    /\ pc' = "stream"
    /\ UNCHANGED <<inputs, automation,
                   raised, stdout, files, listing, ocr, prompting, json_file, blueprints>>

\* InvokeThrows with a retry: after an error that is not access denied the call
\* is made again.
InvokeThrowsRetry ==
    /\ pc = "invoke"
    /\ BodyNames \subseteq defined
    /\ \E error \in InvokeErrors :
           /\ fault' = error
           /\ stdout' = stdout \o ExceptClientError(error).out
           /\ IF error = Throttling
              THEN pc' = "invoke" /\ UNCHANGED raised
              ELSE /\ pc' = NextCell("invoke")
                   /\ raised' = Ran("invoke", ExceptClientError(error).raised)
    /\ calls' = Append(calls, Call("invoke_model_with_response_stream", "invoke",
                                   Messages))
    /\ stepLog' = stepLog \o Whole("invoke")
    /\ defined' = defined \cup {"body", "modelId"}
    /\ UNCHANGED <<inputs, automation,
                   files, listing, ocr, prompting, streaming, json_file, blueprints>>

\* invoke_model_with_response_stream throws.
InvokeThrows ==
    /\ pc = "invoke"
    /\ BodyNames \subseteq defined
    /\ \E error \in InvokeErrors :
           /\ fault' = error
           /\ stdout' = stdout \o ExceptClientError(error).out
           /\ raised' = Ran("invoke", ExceptClientError(error).raised)
    /\ calls' = Append(calls, Call("invoke_model_with_response_stream", "invoke",
                                   Messages))
    /\ stepLog' = stepLog \o Whole("invoke")
    /\ defined' = defined \cup {"body", "modelId"}
    /\ pc' = NextCell("invoke")
    /\ UNCHANGED <<inputs, automation,
                   files, listing, ocr, prompting, streaming, json_file, blueprints>>

\* print("") after the loop: at the level of the try block in nb01, inside
\* "if stream:" in nb02, absent from nb00.
AfterLoop ==
    CASE nb = "nb01" -> <<"\n">>
      [] nb = "nb02" -> IF response # None THEN <<"\n">> ELSE <<>>
      [] OTHER -> <<>>

\* TakeEvent without "if not text: break": the loop goes on after a delta whose
\* text is missing or empty.
TakeEventNoBreak(ev) ==
    LET skip == [add |-> <<>>, out |-> <<>>, end |-> "continue", error |-> NoError]
    IN  IF ev.error # NoError THEN [skip EXCEPT !.end = "throw", !.error = ev.error]
        ELSE IF ~ev.chunk THEN skip
        ELSE IF ~ev.json THEN [skip EXCEPT !.end = "throw", !.error = PyError("JSONDecodeError")]
        ELSE IF ~ev.delta THEN skip
        ELSE IF ~ev.deltaSet THEN skip
        ELSE IF nb = "nb00"
             THEN [skip EXCEPT !.out = IF ev.hasText THEN ev.text ELSE <<"None">>]
             ELSE [skip EXCEPT !.add = IF ev.hasText THEN ev.text ELSE <<>>,
                               !.out = IF ev.hasText THEN ev.text ELSE <<>>]

\* One pass of the loop body on event ev: what is appended to output, what is
\* printed, and how the pass ends.
TakeEvent(ev) ==
    LET skip == [add |-> <<>>, out |-> <<>>, end |-> "continue", error |-> NoError]
    IN  IF ev.error # NoError THEN [skip EXCEPT !.end = "throw", !.error = ev.error]
        ELSE IF ~ev.chunk THEN skip
        ELSE IF ~ev.json THEN [skip EXCEPT !.end = "throw", !.error = PyError("JSONDecodeError")]
        ELSE IF ~ev.delta THEN skip
        ELSE IF ~ev.deltaSet THEN skip
        ELSE IF nb = "nb00"
             THEN [skip EXCEPT !.out = IF ev.hasText THEN ev.text ELSE <<"None">>,
                               !.end = IF ev.hasText /\ ev.text # <<>>
                                       THEN "continue" ELSE "break"]
             ELSE [skip EXCEPT !.add = IF ev.hasText THEN ev.text ELSE <<>>,
                               !.out = IF ev.hasText THEN ev.text ELSE <<>>,
                               !.end = IF ev.hasText /\ ev.text # <<>>
                                       THEN "continue" ELSE "break"]

\* for event in stream: the next event is taken.
StreamEvent ==
    /\ pc = "stream"
    /\ response # None
    /\ pos < Len(response[1])
    /\ LET t == TakeEvent(response[1][pos + 1])
       IN  /\ pos' = pos + 1
           /\ output' = output \o t.add
           /\ CASE t.end = "continue" ->
                     /\ stdout' = stdout \o t.out
                     /\ UNCHANGED <<pc, raised, fault, stepLog>>
                [] t.end = "break" ->
                     /\ stdout' = stdout \o t.out \o AfterLoop
                     /\ raised' = Ran("invoke", NoError)
                     /\ stepLog' = Append(stepLog, Ended("accumulate"))
                     /\ pc' = NextCell("invoke")
                     /\ UNCHANGED fault
                [] t.end = "throw" ->
                     /\ fault' = t.error
                     /\ stdout' = stdout \o ExceptClientError(t.error).out
                     /\ raised' = Ran("invoke", ExceptClientError(t.error).raised)
                     /\ stepLog' = Append(stepLog, Ended("accumulate"))
                     /\ pc' = NextCell("invoke")
    /\ UNCHANGED <<inputs, automation, defined, calls, files, listing, ocr, prompting, response,
                   json_file, blueprints>>

\* There is no stream, or the stream has no further event.
StreamExhausted ==
    /\ pc = "stream"
    /\ IF response = None THEN TRUE ELSE pos = Len(response[1])
    /\ stdout' = stdout \o AfterLoop
    /\ raised' = Ran("invoke", NoError)
    /\ stepLog' = Append(stepLog, Ended("accumulate"))
    /\ pc' = NextCell("invoke")
    /\ UNCHANGED <<inputs, automation, defined, fault, calls, files, listing, ocr, prompting,
                   streaming, json_file, blueprints>>


\* ------------------------------------------------------------------ nb01 and nb03: listing

\* The keys a bucket can hold, in the order list_objects_v2 returns keys
\* (ascending); a key is the sequence of its parts.
KeyUniverse == << <<"a", ".pdf">>, <<"b">> >>
Range(s) == {s[i] : i \in DOMAIN s}
Buckets == {SelectSeq(KeyUniverse, LAMBDA k : k \in K) : K \in SUBSET Range(KeyUniverse)}

RECURSIVE Lines(_)
\* for obj in file_objects: print(obj["Key"])
Lines(keys) == IF keys = <<>> THEN <<>> ELSE Head(keys) \o <<"\n">> \o Lines(Tail(keys))

\* FirstKey taking the key of the last listed object.
LastKey(objects) == objects[Len(objects)]

\* file_objects[0]["Key"]
FirstKey(objects) == objects[1]

\* response = s3_client.list_objects_v2(Bucket=s3_bucket); file_objects =
\* response["Contents"]: the response of an empty bucket has no "Contents".
\* nb03 goes on with s3_file_key = file_objects[0]["Key"].
ListObjects ==
    /\ pc = "list"
    /\ calls' = Append(calls, Call("list_objects_v2", "list", <<>>))
    /\ stepLog' = stepLog \o Whole("list")
    /\ IF bucket = <<>>
       THEN /\ raised' = Ran("list", PyError("KeyError"))
            /\ defined' = defined \cup {"s3_client", "response"}
            /\ UNCHANGED <<stdout, listing>>
       ELSE /\ raised' = Ran("list", NoError)
            /\ file_objects' = bucket
            /\ obj' = bucket[Len(bucket)]
            /\ stdout' = stdout \o Lines(bucket)
            /\ s3_file_key' = IF nb = "nb03" THEN FirstKey(bucket) ELSE s3_file_key
            /\ defined' = defined \cup {"s3_client", "response", "file_objects", "obj"}
                              \cup (IF nb = "nb03" THEN {"s3_file_key"} ELSE {})
    /\ pc' = NextCell("list")
    /\ UNCHANGED <<inputs, automation,
                   fault, files, ocr, prompting, streaming, json_file, blueprints>>

\* ------------------------------------------------------------------ nb01: the Textract loop

\* str.removesuffix
RemoveSuffix(s, suffix) ==
    IF Len(s) >= Len(suffix) /\ SubSeq(s, Len(s) - Len(suffix) + 1, Len(s)) = suffix
    THEN SubSeq(s, 1, Len(s) - Len(suffix))
    ELSE s

\* base_filename.removesuffix(".pdf") + tail
OutputFilename(key, tail) == RemoveSuffix(key, <<".pdf">>) \o <<tail>>

\* open(path, "w") ... write(text)
Written(name, text) == (name :> text) @@ files

DocStarted(k) == [step |-> "ocr", ev |-> "start", doc |-> k]
DocEnded(k) == [step |-> "ocr", ev |-> "end", doc |-> k]
DocAborted(k) == [step |-> "ocr", ev |-> "abort", doc |-> k]

TextractNameError ==
    /\ pc = "textract"
    /\ "file_objects" \notin defined
    /\ raised' = Ran("textract", PyError("NameError"))
    /\ pc' = NextCell("textract")
    /\ UNCHANGED <<inputs, automation, defined, fault, stdout, calls, stepLog, files, listing, ocr,
                   prompting, streaming, json_file, blueprints>>

\* for obj in file_objects: the top of the loop.  The next object is bound and
\* the body runs up to document = None; or there is no further object and the
\* cell has finished.
TextractFor ==
    /\ pc = "textract"
    /\ "file_objects" \in defined
    /\ IF iter < Len(file_objects)
       THEN LET key == file_objects[iter + 1]
            IN  /\ iter' = iter + 1
                /\ obj' = key
                /\ stdout' = stdout \o <<"Processing">> \o key \o <<"\n">>
                /\ base_filename' = key
                /\ output_filename' = OutputFilename(key, "_textract.txt")
                /\ document' = None
                /\ defined' = defined \cup {"obj", "base_filename", "s3_filename",
                                            "output_filename", "document"}
                /\ stepLog' = stepLog
                       \o (IF iter = 0 THEN <<Started("ocr")>> ELSE <<>>)
                       \o <<DocStarted(iter + 1)>>
                /\ pc' = "get_text"
                /\ UNCHANGED <<raised, images>>
       ELSE /\ raised' = Ran("textract", NoError)
            /\ stepLog' = stepLog \o (IF iter = 0 THEN Whole("ocr") ELSE <<Ended("ocr")>>)
            /\ pc' = NextCell("textract")
            /\ UNCHANGED <<defined, stdout, obj, ocr>>
    /\ UNCHANGED <<inputs, automation, fault, calls, files, file_objects, s3_file_key, prompting,
                   streaming, json_file, blueprints>>

\* TextractGetText going on with the next object when a document has no text:
\* nothing is written for it.
TextractGetTextContinues ==
    /\ pc = "get_text"
    /\ IF document = None
       THEN /\ pc' = "textract"
            /\ UNCHANGED <<defined, stdout, files, raised, stepLog>>
       ELSE /\ files' = Written(output_filename, document[1])
            /\ stdout' = stdout \o <<"---", "\n">>
            /\ defined' = defined \cup {"document_text", "text_file"}
            /\ stepLog' = Append(stepLog, DocEnded(iter))
            /\ pc' = "textract"
            /\ UNCHANGED raised
    /\ UNCHANGED <<inputs, automation, fault, calls, listing, ocr, prompting, streaming, json_file,
                   blueprints>>

\* document_text = document.get_text(config=MarkdownLinearizationConfig), the
\* write of the text file and print("---").  None has no get_text.
TextractGetText ==
    /\ pc = "get_text"
    /\ IF document = None
       THEN /\ raised' = Ran("textract", PyError("AttributeError"))
            /\ stepLog' = stepLog \o <<DocAborted(iter), Ended("ocr")>>
            /\ pc' = NextCell("textract")
            /\ UNCHANGED <<defined, stdout, files>>
       ELSE /\ files' = Written(output_filename, document[1])
            /\ stdout' = stdout \o <<"---", "\n">>
            /\ defined' = defined \cup {"document_text", "text_file"}
            /\ stepLog' = Append(stepLog, DocEnded(iter))
            /\ pc' = "textract"
            /\ UNCHANGED raised
    /\ UNCHANGED <<inputs, automation, fault, calls, listing, ocr, prompting, streaming, json_file,
                   blueprints>>

\* ------------------------------------------------------------------ nb01: PDF to images, prompt, messages, export

\* One page of the PDF as the base64 string of its JPEG.
ImageStr(key, page) == <<"base64", "JPEG">> \o key \o <<ToString(page)>>

\* get_base64_encoded_images_from_pdf: one string for each image that
\* convert_from_path returns, in that order.
get_base64_encoded_images_from_pdf(key, pages) == [i \in 1..pages |-> ImageStr(key, i)]

\* images = get_base64_encoded_images_from_pdf(f"{input_path}/{base_filename}")
ConvertPdf ==
    /\ pc = "images"
    /\ IF "base_filename" \in defined
       THEN /\ images' = get_base64_encoded_images_from_pdf(base_filename, pdf_pages)
            /\ stdout' = stdout \o <<ToString(Len(images')), "\n">>
            /\ defined' = defined \cup {"get_base64_encoded_images_from_pdf", "images"}
            /\ raised' = Ran("images", NoError)
       ELSE /\ raised' = Ran("images", PyError("NameError"))
            /\ defined' = defined \cup {"get_base64_encoded_images_from_pdf"}
            /\ UNCHANGED <<stdout, images>>
    /\ stepLog' = stepLog \o Whole("convert")
    /\ pc' = NextCell("images")
    /\ UNCHANGED <<inputs, automation, fault, calls, files, listing, base_filename, output_filename,
                   document, iter, prompting, streaming, json_file, blueprints>>

\* system_prompt = ...; prompt = """Here is the document."""
OcrPrompt ==
    /\ pc = "prompts"
    /\ prompt' = <<"Here is the document.">>
    /\ defined' = defined \cup {"system_prompt", "prompt"}
    /\ raised' = Ran("prompts", NoError)
    /\ stepLog' = Append(stepLog, Started("prompt"))
    /\ pc' = NextCell("prompts")
    /\ UNCHANGED <<inputs, automation,
                   fault, stdout, calls, files, listing, ocr, attributes, messages,
                   streaming, json_file, blueprints>>

TextEntry(text) == [type |-> "text", data |-> text]
ImageEntry(image_str) == [type |-> "image", data |-> image_str]

\* MessagesContent with the text entry put before the image entries.
MessagesContentPromptFirst(imgs, text) ==
    <<TextEntry(text)>> \o [i \in 1..Len(imgs) |-> ImageEntry(imgs[i])]

\* messages_content = [image entries for image_str in images], then
\* messages_content.append({"type": "text", "text": prompt})
MessagesContent(imgs, text) == [i \in 1..Len(imgs) |-> ImageEntry(imgs[i])] \o <<TextEntry(text)>>

\* The messages cell: nb01 builds the content from images and prompt, nb02 from
\* prompt alone.
BuildMessages ==
    /\ pc = "messages"
    /\ LET needs == IF nb = "nb01" THEN {"images", "prompt"} ELSE {"prompt"}
       IN  IF needs \subseteq defined
           THEN /\ messages' = IF nb = "nb01" THEN MessagesContent(images, prompt)
                                               ELSE <<TextEntry(prompt)>>
                /\ defined' = defined \cup {"messages"}
                                  \cup (IF nb = "nb01" THEN {"messages_content"} ELSE {})
                /\ raised' = Ran("messages", NoError)
           ELSE /\ raised' = Ran("messages", PyError("NameError"))
                /\ UNCHANGED <<defined, messages>>
    /\ stepLog' = Append(stepLog, Ended("prompt"))
    /\ pc' = NextCell("messages")
    /\ UNCHANGED <<inputs, automation, fault, stdout, calls, files, listing, ocr, prompt,
                   attributes, streaming, json_file, blueprints>>

\* base_filename = obj["Key"]; output_filename = ... + "_bedrock.txt"; the file
\* is written with output.
ExportOutput ==
    /\ pc = "export"
    /\ IF "obj" \notin defined
       THEN /\ raised' = Ran("export", PyError("NameError"))
            /\ UNCHANGED <<defined, files, base_filename, output_filename>>
       ELSE /\ base_filename' = obj
            /\ output_filename' = OutputFilename(obj, "_bedrock.txt")
            /\ IF "output" \in defined
               THEN /\ files' = Written(OutputFilename(obj, "_bedrock.txt"), output)
                    /\ raised' = Ran("export", NoError)
               ELSE \* the file is opened, and so truncated, before output is read
                    /\ files' = Written(OutputFilename(obj, "_bedrock.txt"), <<>>)
                    /\ raised' = Ran("export", PyError("NameError"))
            /\ defined' = defined \cup {"base_filename", "s3_filename", "output_filename",
                                        "text_file"}
    /\ stepLog' = stepLog \o Whole("export")
    /\ pc' = NextCell("export")
    /\ UNCHANGED <<inputs, automation, fault, stdout, calls, listing, document, images, iter,
                   prompting, streaming, json_file, blueprints>>


\* ------------------------------------------------------------------ nb02: load, prompt template, parse

processed_file == <<"2310.06825v1", "_bedrock.txt">>

\* The texts the processed file can hold.
Docs == {<<"Mistral", "7B">>, <<"LLaMA">>}

\* with open(f"{output_path}/{processed_file}", "r") as file: document = file.read()
LoadDocument ==
    /\ pc = "load"
    /\ IF processed_file \in DOMAIN files
       THEN /\ document' = Some(files[processed_file])
            /\ stdout' = stdout \o files[processed_file] \o <<"...", "\n">>
            /\ defined' = defined \cup {"processed_file", "file", "document"}
            /\ raised' = Ran("load", NoError)
       ELSE /\ raised' = Ran("load", PyError("FileNotFoundError"))
            /\ defined' = defined \cup {"processed_file"}
            /\ UNCHANGED <<stdout, document>>
    /\ stepLog' = stepLog \o Whole("load")
    /\ pc' = NextCell("load")
    /\ UNCHANGED <<inputs, automation, fault, calls, files, listing, base_filename, output_filename,
                   images, iter, prompting, streaming, json_file, blueprints>>

\* prompt = """Here is the document: ... {document} ... {attributes} ..."""
Template ==
    <<"Here is the document:", "<document>", "{document}", "</document>",
      "Here are the attributes to extract:", "<attributes>", "{attributes}",
      "</attributes>">>

PromptTemplate ==
    /\ pc = "template"
    /\ prompt' = Template
    /\ defined' = defined \cup {"system_prompt", "prompt"}
    /\ raised' = Ran("template", NoError)
    /\ stepLog' = Append(stepLog, Started("prompt"))
    /\ pc' = NextCell("template")
    /\ UNCHANGED <<inputs, automation,
                   fault, stdout, calls, files, listing, ocr, attributes, messages,
                   streaming, json_file, blueprints>>

\* TASK 1: attributes = """ 1. Title. The title of the document. ... """
DefineAttributes ==
    /\ pc = "attributes"
    /\ attributes' = <<"1. Title. The title of the document.", "...">>
    /\ defined' = defined \cup {"attributes"}
    /\ raised' = Ran("attributes", NoError)
    /\ pc' = NextCell("attributes")
    /\ UNCHANGED <<inputs, automation, fault, stdout, calls, stepLog, files, listing, ocr, prompt,
                   messages, streaming, json_file, blueprints>>

\* TASK 2: prompt = prompt; print(prompt)
InsertVariables ==
    /\ pc = "insert"
    /\ prompt' = prompt
    /\ stdout' = stdout \o prompt \o <<"\n">>
    /\ raised' = Ran("insert", NoError)
    /\ pc' = NextCell("insert")
    /\ UNCHANGED <<inputs, automation,
                   defined, fault, calls, stepLog, files, listing, ocr, attributes,
                   messages, streaming, json_file, blueprints>>

\* TASK 3: json_file = {}.  A JSON object is the set of its keys.
ParseOutput ==
    /\ pc = "parse"
    /\ json_file' = {}
    /\ defined' = defined \cup {"json_file"}
    /\ raised' = Ran("parse", NoError)
    /\ stepLog' = stepLog \o Whole("extract")
    /\ pc' = NextCell("parse")
    /\ UNCHANGED <<inputs, automation,
                   fault, stdout, calls, files, listing, ocr, prompting, streaming,
                   blueprints>>

\* ------------------------------------------------------------------ nb03: create or update the blueprint

MaxBlueprints == 2    \* most entries list_blueprints returns

blueprint_name == "test-brand-new-blueprint"

Arns == {"arn:blueprint/1", "arn:blueprint/2"}

\* An entry of list_blueprints_response["blueprints"]; blueprintName may be absent.
Entries == [hasName : {TRUE}, blueprintName : {blueprint_name, "other"}, blueprintArn : Arns]
               \cup [hasName : {FALSE}, blueprintName : {""}, blueprintArn : Arns]

\* FirstNamed taking the last entry of that name instead of the first.
LastNamed(list, name) ==
    LET hits == {i \in DOMAIN list : list[i].hasName /\ list[i].blueprintName = name}
    IN  IF hits = {} THEN None
        ELSE Some(list[CHOOSE i \in hits : \A j \in hits : i >= j])

\* next((blueprint for blueprint in ... if "blueprintName" in blueprint and
\*       blueprint["blueprintName"] == blueprint_name), None)
FirstNamed(list, name) ==
    LET hits == {i \in DOMAIN list : list[i].hasName /\ list[i].blueprintName = name}
    IN  IF hits = {} THEN None
        ELSE Some(list[CHOOSE i \in hits : \A j \in hits : i <= j])

\* The errors a control-plane call can end with.
BdaErrors == {AccessDenied, Throttling}

\* list_blueprints_response = bda_client.list_blueprints(blueprintStageFilter="ALL")
\* and the search for blueprint_name.
ListBlueprints ==
    /\ pc = "blueprint"
    /\ \E list \in SeqsUpTo(Entries, MaxBlueprints) :
           /\ list_blueprints_response' = list
           /\ blueprint' = FirstNamed(list, blueprint_name)
    /\ calls' = Append(calls, Call("list_blueprints", "blueprint", <<>>))
    /\ stepLog' = Append(stepLog, Started("blueprint"))
    /\ defined' = defined \cup {"list_blueprints_response", "blueprint"}
    /\ pc' = "write_blueprint"
    /\ UNCHANGED <<inputs, automation,
                   raised, fault, stdout, files, listing, ocr, prompting, streaming,
                   json_file, blueprint_arn>>

ListBlueprintsThrows ==
    /\ pc = "blueprint"
    /\ \E error \in BdaErrors : raised' = Ran("blueprint", error)
    /\ calls' = Append(calls, Call("list_blueprints", "blueprint", <<>>))
    /\ stepLog' = stepLog \o Whole("blueprint")
    /\ pc' = NextCell("blueprint")
    /\ UNCHANGED <<inputs, automation,
                   defined, fault, stdout, files, listing, ocr, prompting, streaming,
                   json_file, blueprints>>

\* if not blueprint: create_blueprint(blueprintName=blueprint_name, ...)
\* else: update_blueprint(blueprintArn=blueprint["blueprintArn"], ...)
WriteCall(found) ==
    IF found = None
    THEN Call("create_blueprint", "blueprint", <<blueprint_name>>)
    ELSE Call("update_blueprint", "blueprint", <<found[1].blueprintArn>>)

\* The call returns; blueprint_arn = response["blueprint"]["blueprintArn"].
WriteBlueprint ==
    /\ pc = "write_blueprint"
    /\ \E arn \in Arns :
           /\ calls' = Append(calls, [WriteCall(blueprint) EXCEPT !.ret = <<arn>>])
           /\ blueprint_arn' = arn
    /\ stdout' = stdout \o <<IF blueprint = None THEN "Creating new blueprint"
                                                 ELSE "Found existing blueprint", "\n">>
    /\ defined' = defined \cup {"response", "blueprint_arn"}
    /\ raised' = Ran("blueprint", NoError)
    /\ stepLog' = Append(stepLog, Ended("blueprint"))
    /\ pc' = NextCell("blueprint")
    /\ UNCHANGED <<inputs, automation, fault, files, listing, ocr, prompting, streaming, json_file,
                   list_blueprints_response, blueprint>>

WriteBlueprintThrows ==
    /\ pc = "write_blueprint"
    /\ \E error \in BdaErrors : raised' = Ran("blueprint", error)
    /\ calls' = Append(calls, WriteCall(blueprint))
    /\ stepLog' = Append(stepLog, Ended("blueprint"))
    /\ pc' = NextCell("blueprint")
    /\ UNCHANGED <<inputs, automation,
                   defined, fault, stdout, files, listing, ocr, prompting, streaming,
                   json_file, blueprints>>

\* ------------------------------------------------------------------ nb03: the data automation job

\* s3_bucket = f"information-extraction-workshop-{ACCOUNT_ID}"
s3_bucket == <<"information-extraction-workshop-", "ACCOUNT_ID">>

\* f"s3://{s3_bucket}/{key}"
S3Uri(name, key) == <<"s3://">> \o name \o <<"/">> \o key

\* The keyword arguments of invoke_data_automation_async that name data:
\* inputConfiguration, outputConfiguration and blueprints.
InvokeArguments ==
    [inputConfiguration |-> S3Uri(s3_bucket, s3_file_key),
     outputConfiguration |-> S3Uri(s3_bucket, <<"bda-outputs">>),
     blueprints |-> <<blueprint_arn>>]

\* The names the call's arguments read, in the order they are evaluated.
InvokeArgumentNames == <<"s3_file_key", "blueprint_arn", "default_profile_arn">>

InvocationArns == {"arn:invocation/1", "arn:invocation/2"}

\* dataAutomationProfileArn = (...,); response = bda_runtime_client.
\* invoke_data_automation_async(...); invocationArn = response["invocationArn"].
\* A name that is not bound ends the cell before the call is made.
InvokeDataAutomation ==
    /\ pc = "invoke_bda"
    /\ IF Range(InvokeArgumentNames) \subseteq defined
       THEN \E arn \in InvocationArns :
               /\ calls' = Append(calls, [Call("invoke_data_automation_async", "invoke_bda",
                                               InvokeArguments) EXCEPT !.ret = <<arn>>])
               /\ invocationArn' = arn
               /\ stdout' = stdout \o <<"Invoked data automation job with invocation arn ",
                                        arn, "\n">>
               /\ defined' = defined \cup {"dataAutomationProfileArn", "response",
                                           "invocationArn"}
               /\ raised' = Ran("invoke_bda", NoError)
       ELSE /\ raised' = Ran("invoke_bda", PyError("NameError"))
            /\ defined' = defined \cup {"dataAutomationProfileArn"}
            /\ UNCHANGED <<calls, invocationArn, stdout>>
    /\ pc' = NextCell("invoke_bda")
    /\ UNCHANGED <<inputs, fault, stepLog, files, listing, ocr, prompting, streaming,
                   json_file, blueprints, status_response, job_metadata_s3_location,
                   custom_output_path>>

\* The states of a data automation job.
JobStatuses == {"Created", "InProgress", "Success", "ServiceError", "ClientError"}

job_metadata_key == <<"bda-outputs", "/", "job_metadata.json">>
custom_output_key == <<"bda-outputs", "/", "custom_output", "/", "result.json">>

\* What get_data_automation_status answers: the status of the job and, when the
\* response carries one, outputConfiguration.s3Uri.
StatusResponses ==
    [status : JobStatuses, hasOutputConfiguration : BOOLEAN,
     s3Uri : {S3Uri(s3_bucket, job_metadata_key)}]

\* status_response = bda_runtime_client.get_data_automation_status(
\* invocationArn=invocationArn); job_metadata_s3_location =
\* status_response["outputConfiguration"]["s3Uri"].  The status is printed and
\* not tested.
GetStatus ==
    /\ pc = "status"
    /\ IF "invocationArn" \in defined
       THEN \E answer \in StatusResponses :
               /\ calls' = Append(calls, [Call("get_data_automation_status", "status",
                                               <<invocationArn>>)
                                              EXCEPT !.ret = <<answer.status>>])
               /\ status_response' = Some(answer)
               /\ stdout' = stdout \o <<answer.status, "\n">>
               /\ IF answer.hasOutputConfiguration
                  THEN /\ job_metadata_s3_location' = answer.s3Uri
                       /\ defined' = defined \cup {"status_response",
                                                   "job_metadata_s3_location"}
                       /\ raised' = Ran("status", NoError)
                  ELSE /\ defined' = defined \cup {"status_response"}
                       /\ raised' = Ran("status", PyError("KeyError"))
                       /\ UNCHANGED job_metadata_s3_location
       ELSE /\ raised' = Ran("status", PyError("NameError"))
            /\ UNCHANGED <<calls, status_response, stdout, job_metadata_s3_location, defined>>
    /\ pc' = NextCell("status")
    /\ UNCHANGED <<inputs, fault, stepLog, files, listing, ocr, prompting, streaming,
                   json_file, blueprints, invocationArn, custom_output_path>>

\* str.removeprefix
RemovePrefix(s, prefix) ==
    IF Len(s) >= Len(prefix) /\ SubSeq(s, 1, Len(prefix)) = prefix
    THEN SubSeq(s, Len(prefix) + 1, Len(s))
    ELSE s

\* uri.removeprefix("s3://").split("/", 1): the part before the first "/" and
\* the part after it (no second part when there is no "/").
S3UriParts(uri) ==
    LET path == RemovePrefix(uri, <<"s3://">>)
        cuts == {i \in DOMAIN path : path[i] = "/"}
    IN  IF cuts = {} THEN <<path>>
        ELSE LET cut == CHOOSE i \in cuts : \A j \in cuts : i <= j
             IN  <<SubSeq(path, 1, cut - 1), SubSeq(path, cut + 1, Len(path))>>

\* s3_client.get_object(Bucket=s3_uri_parts[0], Key=s3_uri_parts[1]) on the
\* parts of uri.
GetObject(cell, uri) == Call("get_object", cell, S3UriParts(uri))

NoSuchKey == ClientError("NoSuchKey", <<"The specified key does not exist.">>)

\* s3_uri_parts = job_metadata_s3_location.removeprefix("s3://").split("/", 1);
\* response = s3_client.get_object(...); job_metadata = json.loads(...);
\* custom_output_path = job_metadata["output_metadata"][0]["segment_metadata"][0]
\* ["custom_output_path"]
FetchJobMetadata ==
    /\ pc = "metadata"
    /\ IF "job_metadata_s3_location" \in defined
       THEN /\ calls' = Append(calls, GetObject("metadata", job_metadata_s3_location))
            /\ \E found \in BOOLEAN :
                  IF found
                  THEN /\ custom_output_path' = S3Uri(s3_bucket, custom_output_key)
                       /\ stdout' = stdout \o <<"job_metadata", "\n">>
                       /\ defined' = defined \cup {"s3_uri_parts", "response", "job_metadata",
                                                   "custom_output_path"}
                       /\ raised' = Ran("metadata", NoError)
                  ELSE /\ defined' = defined \cup {"s3_uri_parts"}
                       /\ raised' = Ran("metadata", NoSuchKey)
                       /\ UNCHANGED <<custom_output_path, stdout>>
       ELSE /\ raised' = Ran("metadata", PyError("NameError"))
            /\ UNCHANGED <<calls, custom_output_path, stdout, defined>>
    /\ pc' = NextCell("metadata")
    /\ UNCHANGED <<inputs, fault, stepLog, files, listing, ocr, prompting, streaming,
                   json_file, blueprints, invocationArn, status_response,
                   job_metadata_s3_location>>

\* s3_uri_parts = custom_output_path.removeprefix("s3://").split("/", 1);
\* response = s3_client.get_object(...); custom_outputs = json.loads(...);
\* print(custom_outputs["inference_result"])
FetchCustomOutputs ==
    /\ pc = "custom_outputs"
    /\ IF "custom_output_path" \in defined
       THEN /\ calls' = Append(calls, GetObject("custom_outputs", custom_output_path))
            /\ \E found \in BOOLEAN :
                  IF found
                  THEN /\ stdout' = stdout \o <<"inference_result", "\n">>
                       /\ defined' = defined \cup {"s3_uri_parts", "response",
                                                   "custom_outputs"}
                       /\ raised' = Ran("custom_outputs", NoError)
                  ELSE /\ defined' = defined \cup {"s3_uri_parts"}
                       /\ raised' = Ran("custom_outputs", NoSuchKey)
                       /\ UNCHANGED stdout
       ELSE /\ raised' = Ran("custom_outputs", PyError("NameError"))
            /\ UNCHANGED <<calls, stdout, defined>>
    /\ pc' = NextCell("custom_outputs")
    /\ UNCHANGED <<inputs, fault, stepLog, files, listing, ocr, prompting, streaming,
                   json_file, blueprints, automation>>


\* ------------------------------------------------------------------ specification

Init ==
    /\ nb \in Notebooks
    /\ pc = Cells(nb)[1]
    /\ bucket \in (IF nb \in {"nb01", "nb03"} THEN Buckets ELSE {<<>>})
    /\ pdf_pages \in (IF nb = "nb01" THEN 1..MaxPages ELSE {1})
    /\ files \in (IF nb = "nb02"
                  THEN {<<>>} \cup {(processed_file :> d) : d \in Docs}
                  ELSE {<<>>})
    /\ defined = {}
    /\ raised = <<>>
    /\ fault = NoError
    /\ stdout = <<>>
    /\ calls = <<>>
    /\ stepLog = <<>>
    /\ file_objects = <<>>
    /\ obj = <<>>
    /\ s3_file_key = <<>>
    /\ base_filename = <<>>
    /\ output_filename = <<>>
    /\ document = None
    /\ images = <<>>
    /\ iter = 0
    /\ prompt = <<>>
    /\ attributes = <<>>
    /\ messages = <<>>
    /\ response = None
    /\ pos = 0
    /\ output = <<>>
    /\ json_file = {}
    /\ list_blueprints_response = <<>>
    /\ blueprint = None
    /\ blueprint_arn = ""
    /\ invocationArn = ""
    /\ status_response = None
    /\ job_metadata_s3_location = <<>>
    /\ custom_output_path = <<>>

Next ==
    \/ ListObjects
    \/ TextractNameError
    \/ TextractFor
    \/ TextractGetText
    \/ ConvertPdf
    \/ OcrPrompt
    \/ BuildMessages
    \/ InvokeNameError
    \/ InvokeReturns
    \/ InvokeThrows
    \/ StreamEvent
    \/ StreamExhausted
    \/ ExportOutput
    \/ LoadDocument
    \/ PromptTemplate
    \/ DefineAttributes
    \/ InsertVariables
    \/ ParseOutput
    \/ ListBlueprints
    \/ ListBlueprintsThrows
    \/ WriteBlueprint
    \/ WriteBlueprintThrows
    \/ InvokeDataAutomation
    \/ GetStatus
    \/ FetchJobMetadata
    \/ FetchCustomOutputs

Spec == Init /\ [][Next]_vars


\* ------------------------------------------------------------------ properties

\* sub occurs in s as a run of consecutive tokens.
Contains(s, sub) ==
    \E i \in 0..(Len(s) - Len(sub)) : SubSeq(s, i + 1, i + Len(sub)) = sub

HasRun(cell) == cell \in DOMAIN raised
IsAccessDenied(error) == error.type = "ClientError" /\ error.code = "AccessDeniedException"
InvokeCalls == {i \in DOMAIN calls : calls[i].api = "invoke_model_with_response_stream"}

\* C1: in each of nb00, nb01 and nb02, when the invocation fails with a
\* ClientError whose code is AccessDeniedException, the cell ends without an
\* exception leaving it, and what it printed holds the service's message
\* followed by the troubleshooting hint.
AccessDeniedIsCaught ==
    (HasRun("invoke") /\ IsAccessDenied(fault))
        => /\ raised["invoke"] = NoError
           /\ Contains(stdout, fault.message \o <<Hint>>)

\* C1 witness: the call itself failed with access denied (no response was ever
\* bound) and the cell has ended.
AccessDeniedSeen ==
    /\ HasRun("invoke")
    /\ IsAccessDenied(fault)
    /\ "response" \notin defined
    /\ InvokeCalls # {}

\* C2: an error thrown by the call or by the stream loop that is not a
\* ClientError with code AccessDeniedException leaves the cell as the very same
\* error, and the except clause prints nothing for it.
OtherErrorsPropagate ==
    (HasRun("invoke") /\ fault # NoError /\ ~IsAccessDenied(fault))
        => /\ raised["invoke"] = fault
           /\ ~Contains(stdout, <<Hint>>)

\* C2 witness: a chunk whose bytes are no JSON was met in the stream and the
\* cell has ended.
BadChunkSeen ==
    /\ HasRun("invoke")
    /\ fault = PyError("JSONDecodeError")
    /\ pos >= 1

\* C3: invoke_model_with_response_stream is called at most once in a run of
\* the cell, whatever the outcome of the call.
NoRetry == Cardinality(InvokeCalls) <= 1

\* C3 witness: the call failed with an error other than access denied, the
\* cell has ended, and the one call is the last call made.
FailedCallSeen ==
    /\ HasRun("invoke")
    /\ fault = Throttling
    /\ "response" \notin defined
    /\ InvokeCalls = {Len(calls)}

RECURSIVE AllText(_)
\* The texts of the text deltas of a stream, concatenated in stream order.
AllText(stream) ==
    IF stream = <<>> THEN <<>>
    ELSE (IF Head(stream).chunk /\ Head(stream).json /\ Head(stream).delta
              /\ Head(stream).deltaSet /\ Head(stream).hasText
          THEN Head(stream).text ELSE <<>>) \o AllText(Tail(stream))

\* C4: in nb01 and nb02, after an invocation whose stream was consumed without
\* error, output is the concatenation of the texts of all text deltas of the
\* response stream.
OutputIsWholeResponse ==
    (nb \in {"nb01", "nb02"} /\ HasRun("invoke") /\ "output" \in defined
        /\ fault = NoError /\ raised["invoke"] = NoError)
        => output = (IF response = None THEN <<>> ELSE AllText(response[1]))

\* The keys of the first JSON object of a text: what stands between the first
\* "{" and the first "}" after it.
HasJsonObject(text) ==
    \E i, j \in DOMAIN text : i < j /\ text[i] = "{" /\ text[j] = "}"
JsonObjectIn(text) ==
    LET i == CHOOSE a \in DOMAIN text :
                 text[a] = "{" /\ \A b \in 1..(a - 1) : text[b] # "{"
        j == CHOOSE a \in (i + 1)..Len(text) :
                 text[a] = "}" /\ \A b \in (i + 1)..(a - 1) : text[b] # "}"
    IN  {text[k] : k \in (i + 1)..(j - 1)}

\* C5: in nb02, once the parse step has run for a loaded document on an output
\* that holds a JSON object, json_file is that object.
JsonFileIsParsedOutput ==
    (nb = "nb02" /\ HasRun("parse") /\ "document" \in defined /\ "output" \in defined
        /\ HasJsonObject(output))
        => json_file = JsonObjectIn(output)

\* C6: in nb02, the text of the single user message passed to the model holds
\* the loaded document and the attributes, and no unfilled placeholder.
PlaceholdersArePopulated ==
    \A i \in InvokeCalls :
        (nb = "nb02" /\ "document" \in defined)
            => /\ Len(calls[i].arg) = 1
               /\ calls[i].arg[1].type = "text"
               /\ Contains(calls[i].arg[1].data, document[1])
               /\ Contains(calls[i].arg[1].data, attributes)
               /\ ~Contains(calls[i].arg[1].data, <<"{document}">>)
               /\ ~Contains(calls[i].arg[1].data, <<"{attributes}">>)

\* The text Textract extracts from the document stored under key.
ExtractedText(key) == <<"text of">> \o key

\* C7: in nb01, when the Textract loop cell has ended, every listed object has
\* its <key without ".pdf">_textract.txt file in the processed-files directory,
\* holding the text extracted from it.
TextractStoresAllTexts ==
    (nb = "nb01" /\ HasRun("textract") /\ "file_objects" \in defined)
        => \A i \in DOMAIN file_objects :
               /\ OutputFilename(file_objects[i], "_textract.txt") \in DOMAIN files
               /\ files[OutputFilename(file_objects[i], "_textract.txt")]
                      = ExtractedText(file_objects[i])

\* The documents of the Textract loop that have been started and neither
\* finished nor given up.
InProgress ==
    {k \in 1..iter :
        /\ DocStarted(k) \in Range(stepLog)
        /\ DocEnded(k) \notin Range(stepLog)
        /\ DocAborted(k) \notin Range(stepLog)}

Rank(step) ==
    CASE step = "list" -> 1
      [] step \in {"ocr", "convert", "load"} -> 2
      [] step = "prompt" -> 3
      [] step = "invoke" -> 4
      [] step = "accumulate" -> 5
      [] step = "extract" -> 6
      [] step = "export" -> 7

\* The start and end marks of the pipeline steps (the per-document marks of
\* the Textract loop left out).
StepMarks == SelectSeq(stepLog, LAMBDA m : m.doc = 0)

\* Steps are taken in the order of the flow: no mark is followed by a mark of
\* an earlier step.
StepsInOrder ==
    LET marks == StepMarks
    IN  \A i \in 1..(Len(marks) - 1) : Rank(marks[i].step) <= Rank(marks[i + 1].step)

\* A step starts only when the step started before it has ended: the marks are
\* start, end of the same step, start, end of the same step, and so on.
StepsDoNotOverlap ==
    LET marks == StepMarks
    IN  \A i \in DOMAIN marks :
            IF i % 2 = 1
            THEN marks[i].ev = "start"
            ELSE marks[i] = Ended(marks[i - 1].step)

EndedSteps == {StepMarks[i].step : i \in {j \in DOMAIN StepMarks : StepMarks[j].ev = "end"}}
CallsOf(step) == {i \in DOMAIN calls : calls[i].step = step}

NoCellRaised == \A cell \in DOMAIN raised : raised[cell] = NoError

WriteCalls == {i \in DOMAIN calls : calls[i].api \in {"create_blueprint", "update_blueprint"}}
Named == {i \in DOMAIN list_blueprints_response :
             /\ list_blueprints_response[i].hasName
             /\ list_blueprints_response[i].blueprintName = blueprint_name}

\* C10: the blueprint cell never calls both create_blueprint and
\* update_blueprint nor one of them twice; once list_blueprints has returned
\* and the cell has ended exactly one of them was called: update_blueprint with
\* the ARN of the first listed entry named blueprint_name when there is such an
\* entry, create_blueprint with blueprint_name when there is none; and when the
\* cell has completed, blueprint_arn is the ARN that call returned.
CreateOrUpdate ==
    /\ Cardinality(WriteCalls) <= 1
    /\ (HasRun("blueprint") /\ "list_blueprints_response" \in defined)
           => /\ Cardinality(WriteCalls) = 1
              /\ \A i \in WriteCalls :
                     IF Named = {}
                     THEN calls[i].api = "create_blueprint"
                              /\ calls[i].arg = <<blueprint_name>>
                     ELSE calls[i].api = "update_blueprint"
                              /\ \E n \in Named :
                                     /\ \A m \in Named : n <= m
                                     /\ calls[i].arg
                                            = <<list_blueprints_response[n].blueprintArn>>
    /\ (HasRun("blueprint") /\ raised["blueprint"] = NoError)
           => \A i \in WriteCalls : calls[i].ret = <<blueprint_arn>>
    /\ "list_blueprints_response" \notin defined => WriteCalls = {}

\* C10 witness: the cell has completed with an update, and the list held two
\* entries named blueprint_name with different ARNs.
UpdatedFirstOfTwo ==
    /\ HasRun("blueprint")
    /\ raised["blueprint"] = NoError
    /\ \E i \in WriteCalls : calls[i].api = "update_blueprint"
    /\ \E n, m \in Named :
           list_blueprints_response[n].blueprintArn # list_blueprints_response[m].blueprintArn

Completed(cell) == HasRun(cell) /\ raised[cell] = NoError
JobCalls == {i \in DOMAIN calls : calls[i].api = "invoke_data_automation_async"}
StatusCalls == {i \in DOMAIN calls : calls[i].api = "get_data_automation_status"}

\* C12: in nb03, once the listing cell and the blueprint cell have completed
\* and the invocation cell has run, invoke_data_automation_async has been
\* called once, with inputConfiguration s3://<s3_bucket>/<key of the first
\* listed object>, outputConfiguration s3://<s3_bucket>/bda-outputs and a
\* blueprints list holding exactly the ARN the create-or-update call returned;
\* and every status call names the invocation ARN that call returned.
JobInvokedOnFirstObject ==
    (nb = "nb03" /\ Completed("list") /\ Completed("blueprint") /\ HasRun("invoke_bda"))
        => /\ Cardinality(JobCalls) = 1
           /\ \A i \in JobCalls :
                  /\ calls[i].arg.inputConfiguration = S3Uri(s3_bucket, bucket[1])
                  /\ calls[i].arg.outputConfiguration = S3Uri(s3_bucket, <<"bda-outputs">>)
                  /\ \A w \in WriteCalls : calls[i].arg.blueprints = calls[w].ret
                  /\ \A j \in StatusCalls : calls[j].arg = calls[i].ret

\* The pages a request carries: the data of its image entries, in order.
ImagesSent(i) ==
    LET content == calls[i].arg
    IN  [p \in 1..(Len(content) - 1) |-> content[p].data]

PagesThenPrompt ==
    nb = "nb01"
        => /\ Completed("images")
                  => /\ Len(images) = pdf_pages
                     /\ \A p \in 1..pdf_pages : images[p] = ImageStr(base_filename, p)
           /\ \A i \in InvokeCalls :
                  LET content == calls[i].arg
                  IN  /\ Len(content) = pdf_pages + 1
                      /\ \A p \in 1..pdf_pages : content[p] = ImageEntry(images[p])
                      /\ content[pdf_pages + 1] = TextEntry(prompt)

\* C14 witness: a request was made for a PDF of two or more pages.
TwoPagesSent ==
    /\ nb = "nb01"
    /\ pdf_pages >= 2
    /\ InvokeCalls # {}

MetadataReads == {i \in DOMAIN calls : calls[i].api = "get_object" /\ calls[i].step = "metadata"}

Throws(ev) == ev.error # NoError \/ (ev.chunk /\ ~ev.json)
\* The event has no chunk, its chunk has no "delta", or its delta is empty.
IsSkipped(ev) == ~Throws(ev) /\ (~ev.chunk \/ ~ev.delta \/ ~ev.deltaSet)
\* The event has a non-empty delta whose text is missing or empty.
IsStop(ev) == ~Throws(ev) /\ ~IsSkipped(ev) /\ (~ev.hasText \/ ev.text = <<>>)

\* C16: in nb01 and nb02 the loop takes the events in stream order; it never
\* goes past an event whose non-empty delta has a missing or empty text; output
\* is the concatenation of the texts of the events taken, so nothing of a later
\* event is in it; and the cell ends before the end of the stream only on such
\* an event or on one that raises, so an event without chunk, without "delta"
\* or with an empty delta does not stop the loop.
StreamLoopSkipsAndStops ==
    (nb \in {"nb01", "nb02"} /\ response # None)
        => LET stream == response[1]
           IN  /\ pos <= Len(stream)
               /\ \A i \in 1..(pos - 1) : ~IsStop(stream[i]) /\ ~Throws(stream[i])
               /\ output = AllText(SubSeq(stream, 1, pos))
               /\ (pc = "stream" /\ pos >= 1) => (~IsStop(stream[pos]) /\ ~Throws(stream[pos]))
               /\ (HasRun("invoke") /\ pos < Len(stream))
                      => (pos >= 1 /\ (IsStop(stream[pos]) \/ Throws(stream[pos])))

\* C16 witness: the loop has skipped an event, has stopped on the event after
\* it, and a later event of the stream carries a text.
StoppedBeforeLaterText ==
    /\ nb \in {"nb01", "nb02"}
    /\ response # None
    /\ HasRun("invoke")
    /\ pos >= 2
    /\ IsStop(response[1][pos])
    /\ \E i \in 1..(pos - 1) : IsSkipped(response[1][i])
    /\ \E j \in (pos + 1)..Len(response[1]) : AllText(<<response[1][j]>>) # <<>>

====
